---- MODULE Spec2Model ----
(***************************************************************************)
(* A model of dozer-cache's LMDB cache (cache/lmdb/cache.rs): the records  *)
(* store, the primary-key index, the secondary-index sub-stores, the       *)
(* schema catalog and the in-process index registry, with the public       *)
(* operations of `impl Cache for LmdbCache` as actions.                    *)
(***************************************************************************)
EXTENDS Integers, Sequences, FiniteSets, TLC

\* ------------------------------------------------------------------ bounds
\* The records store holds at most MaxRecords entries (guard of insert).
MaxRecords == 2

\* ------------------------------------------------------------- input sets
\* Option<T> is a sequence of length 0 (None) or 1 (Some).
None == <<>>
Some(x) == <<x>>

SchemaIdentifiers ==
    { [id |-> 1, version |-> 1], [id |-> 1, version |-> 2], [id |-> 2, version |-> 1] }

\* Schema names, as byte strings ("a", "b").
Names == { <<97>>, <<98>> }

\* Field values are single bytes; a record has two fields, the first is the
\* primary-key field.
FieldValues == {1, 2}

SortedInverted(fields) == [kind |-> "SortedInverted", fields |-> fields]

\* The (fields, index definitions) shapes a schema is registered with.
SchemaShapes ==
    { [fields |-> <<1, 2>>, indexes |-> << SortedInverted(<<2>>) >>],
      [fields |-> <<1, 2, 3>>,
       indexes |-> << SortedInverted(<<2>>), SortedInverted(<<1, 2>>) >>] }

MkSchema(ident, shape) ==
    [identifier |-> ident, fields |-> shape.fields, primary_index |-> <<1>>]

AllRecords ==
    [schema_id : {None} \cup {Some(i) : i \in SchemaIdentifiers},
     values : [1..2 -> FieldValues]]

\* The records the record-level specifications draw from: three of schema
\* (1, 1), which they register, and one of identifier (1, 2), which they
\* leave unregistered.
InputRecords ==
    { [schema_id |-> Some([id |-> 1, version |-> 1]), values |-> <<1, 1>>],
      [schema_id |-> Some([id |-> 1, version |-> 1]), values |-> <<1, 2>>],
      [schema_id |-> Some([id |-> 1, version |-> 1]), values |-> <<2, 1>>],
      [schema_id |-> Some([id |-> 1, version |-> 2]), values |-> <<1, 1>>] }

LookupKeys == { <<v>> : v \in FieldValues }

\* ------------------------------------------------------------------ bytes
\* uN::to_be_bytes for an N = 8*w bit integer.
RECURSIVE ToBeBytes(_, _)
ToBeBytes(n, w) ==
    IF w = 0 THEN <<>> ELSE ToBeBytes(n \div 256, w - 1) \o << n % 256 >>

\* bincode's fixed-width little-endian integers.
RECURSIVE ToLeBytes(_, _)
ToLeBytes(n, w) ==
    IF w = 0 THEN <<>> ELSE << n % 256 >> \o ToLeBytes(n \div 256, w - 1)

RECURSIVE FromLeBytes(_)
FromLeBytes(b) ==
    IF b = <<>> THEN 0 ELSE Head(b) + 256 * FromLeBytes(Tail(b))

\* u64::from_be_bytes
RECURSIVE FromBeBytes(_)
FromBeBytes(b) ==
    IF b = <<>> THEN 0
    ELSE 256 * FromBeBytes(SubSeq(b, 1, Len(b) - 1)) + b[Len(b)]

\* [a, b, c].join(sep)
RECURSIVE Join(_, _)
Join(parts, sep) ==
    IF Len(parts) = 0 THEN <<>>
    ELSE IF Len(parts) = 1 THEN parts[1]
    ELSE parts[1] \o sep \o Join(Tail(parts), sep)

\* ---------------------------------------------------------------- bincode
\* Option<SchemaIdentifier>: a tag byte, then id (u32) and version (u16).
EncodeOptId(o) ==
    IF o = None THEN <<0>>
    ELSE <<1>> \o ToLeBytes(o[1].id, 4) \o ToLeBytes(o[1].version, 2)

OptIdLen(bytes, pos) == IF bytes[pos] = 0 THEN 1 ELSE 7

DecodeOptId(bytes, pos) ==
    IF bytes[pos] = 0 THEN None
    ELSE Some([id |-> FromLeBytes(SubSeq(bytes, pos + 1, pos + 4)),
               version |-> FromLeBytes(SubSeq(bytes, pos + 5, pos + 6))])

\* Vec<u8-like>: the length (one byte suffices here), then the elements.
EncodeVec(v) == << Len(v) >> \o v
VecLen(bytes, pos) == bytes[pos]
DecodeVec(bytes, pos) == SubSeq(bytes, pos + 1, pos + VecLen(bytes, pos))

\* bincode::serialize(&record)
SerializeRecord(record) == EncodeOptId(record.schema_id) \o EncodeVec(record.values)

\* bincode::deserialize::<Record>
DeserializeRecord(bytes) ==
    [schema_id |-> DecodeOptId(bytes, 1),
     values |-> DecodeVec(bytes, 1 + OptIdLen(bytes, 1))]

\* One IndexDefinition: the variant tag (u32), then the field list.
EncodeIndexDefinition(d) == ToLeBytes(0, 4) \o EncodeVec(d.fields)

RECURSIVE EncodeIndexDefinitions(_)
EncodeIndexDefinitions(ds) ==
    IF ds = <<>> THEN <<>>
    ELSE EncodeIndexDefinition(Head(ds)) \o EncodeIndexDefinitions(Tail(ds))

RECURSIVE DecodeIndexDefinitions(_, _, _)
DecodeIndexDefinitions(bytes, pos, n) ==
    IF n = 0 THEN <<>>
    ELSE << SortedInverted(DecodeVec(bytes, pos + 4)) >>
         \o DecodeIndexDefinitions(bytes, pos + 5 + VecLen(bytes, pos + 4), n - 1)

\* bincode::serialize(&(schema, secondary_indexes))
SerializeSchema(schema, secondary_indexes) ==
    EncodeOptId(schema.identifier) \o EncodeVec(schema.fields)
        \o EncodeVec(schema.primary_index)
        \o << Len(secondary_indexes) >>
        \o EncodeIndexDefinitions(secondary_indexes)

\* bincode::deserialize::<(Schema, Vec<IndexDefinition>)>
DeserializeSchema(bytes) ==
    LET p1 == 1 + OptIdLen(bytes, 1)
        p2 == p1 + 1 + VecLen(bytes, p1)
        p3 == p2 + 1 + VecLen(bytes, p2)
    IN  [schema |-> [identifier |-> DecodeOptId(bytes, 1),
                     fields |-> DecodeVec(bytes, p1),
                     primary_index |-> DecodeVec(bytes, p2)],
         indexes |-> DecodeIndexDefinitions(bytes, p3 + 1, VecLen(bytes, p3))]

\* bincode::serialize(&schema_id) / deserialize::<SchemaIdentifier>
SerializeSchemaId(sid) == ToLeBytes(sid.id, 4) \o ToLeBytes(sid.version, 2)
DeserializeSchemaId(bytes) ==
    [id |-> FromLeBytes(SubSeq(bytes, 1, 4)),
     version |-> FromLeBytes(SubSeq(bytes, 5, 6))]

\* ------------------------------------------------------------ LMDB stores
\* A plain sub-store is a function from keys to values; a DUP_SORT sub-store
\* is a set of <<key, value>> pairs.
EmptyDb == <<>>

\* txn.get: Some(value) or None (MDB_NOTFOUND).
DbGet(db, k) == IF k \in DOMAIN db THEN Some(db[k]) ELSE None

\* txn.put with WriteFlags::default(): an existing key is overwritten.
DbPutNoOverwrite(db, k, v) ==
    [x \in DOMAIN db \cup {k} |-> IF x \in DOMAIN db THEN db[x] ELSE v]

DbPut(db, k, v) ==
    [x \in DOMAIN db \cup {k} |-> IF x = k THEN v ELSE db[x]]

\* txn.del(db, key, None) of a present key.
DbDel(db, k) == [x \in DOMAIN db \ {k} |-> db[x]]

\* mdb_stat(txn, db).ms_entries
ms_entries(db) == Cardinality(DOMAIN db)


\* ------------------------------------------------------------------ state
VARIABLES
    env,           \* the committed contents of the LMDB environment:
                   \*   db (records), primary_index, schema_db, index_dbs
    indexes,       \* IndexMetaData.indexes: registry key -> Database handle
    last,          \* the last operation completed, its arguments and outcome
    lastInsertId,  \* the InternalRecordID the last committed insert assigned
    writers,       \* each writing thread's position in its call and the
                   \*   contents of its write transaction
    readers        \* each reading thread's position in its call and the
                   \*   snapshot its read transaction reads from

vars == << env, indexes, last, lastInsertId, writers, readers >>

\* The threads of the concurrent specifications.
WriterThreads == {"w1", "w2"}
ReaderThreads == {"r1"}
Idle == [pc |-> "idle"]

\* Outcomes of a step inside a transaction: the outcome, the transaction's
\* working contents and a returned value.
Ok(txn, val) == [out |-> "ok", txn |-> txn, val |-> val]
Err(e, txn) == [out |-> e, txn |-> txn, val |-> None]
Panic(txn) == [out |-> "panic", txn |-> txn, val |-> None]

\* The places where the underlying store can report a failure.
FailPoints ==
    {"none", "begin", "schema", "get", "stat", "put", "rput", "del", "unindex",
     "index", "init_db", "commit"}

\* --------------------------------------------------------------- registry
\* IndexMetaData::get_key; callers have checked schema.identifier is Some.
get_key(schema, idx) == schema.identifier[1].id * 100000 + idx

\* format!("index_#{}", key)
IndexDbName(key) == << "index_#", key >>

\* IndexMetaData::insert_index
insert_index(reg, key, db) ==
    [x \in DOMAIN reg \cup {key} |-> IF x = key THEN db ELSE reg[x]]

\* IndexMetaData::get_db: Some(handle), or None where the code panics
\* (unwrap of a missing identifier or of a missing registry entry).
get_db(reg, schema, idx) ==
    IF schema.identifier = None THEN None
    ELSE IF get_key(schema, idx) \in DOMAIN reg
         THEN Some(reg[get_key(schema, idx)])
         ELSE None

\* ---------------------------------------------------------- schema catalog
\* get_schema_key, with the version left out of the key.
get_schema_key_no_version(schema_id) ==
    Join(<< <<115, 99>>, ToBeBytes(schema_id.id, 4), ToBeBytes(0, 2) >>, <<35>>)

get_schema_key(schema_id) ==
    Join(<< <<115, 99>>, ToBeBytes(schema_id.id, 4), ToBeBytes(schema_id.version, 2) >>,
         <<35>>)

\* index::get_schema_reverse_key: a key namespace disjoint from get_schema_key's.
get_schema_reverse_key(name) == Join(<< <<115, 110>>, name >>, <<35>>)

\* insert_schema_with_txn, without the put of the SchemaRecord.
insert_schema_with_txn_name_only(txn, schema, name, secondary_indexes, fail) ==
    IF schema.identifier = None THEN Panic(txn)
    ELSE IF fail \in {"put", "rput"} THEN Err("QueryError::InsertValue", txn)
    ELSE Ok([txn EXCEPT !.schema_db =
                DbPut(@, get_schema_reverse_key(name),
                      SerializeSchemaId(schema.identifier[1]))], None)

insert_schema_with_txn(txn, schema, name, secondary_indexes, fail) ==
    IF schema.identifier = None THEN Panic(txn)
    ELSE LET encoded == SerializeSchema(schema, secondary_indexes)
             schema_id == schema.identifier[1]
             key == get_schema_key(schema_id)
             t1 == [txn EXCEPT !.schema_db = DbPut(@, key, encoded)]
             schema_id_bytes == SerializeSchemaId(schema_id)
             schema_key == get_schema_reverse_key(name)
             t2 == [t1 EXCEPT !.schema_db = DbPut(@, schema_key, schema_id_bytes)]
         IN  IF fail = "put" THEN Err("QueryError::InsertValue", txn)
             ELSE IF fail = "rput" THEN Err("QueryError::InsertValue", t1)
             ELSE Ok(t2, None)

get_schema_and_indexes(txn, schema_identifier, fail) ==
    LET key == get_schema_key(schema_identifier)
        got == DbGet(txn.schema_db, key)
    IN  IF fail = "schema" THEN Err("QueryError::GetValue(StoreError)", txn)
        ELSE IF got = None THEN Err("QueryError::GetValue(NotFound)", txn)
        ELSE Ok(txn, DeserializeSchema(got[1]))

get_schema_from_reverse_key(name, txn, fail) ==
    LET schema_reverse_key == get_schema_reverse_key(name)
        schema_identifier == DbGet(txn.schema_db, schema_reverse_key)
    IN  IF schema_identifier = None THEN Err("QueryError::GetValue(NotFound)", txn)
        ELSE get_schema_and_indexes(txn, DeserializeSchemaId(schema_identifier[1]), fail)

\* get_schema_and_indexes_from_record, with a record without identifier taken
\* to be of schema (1, 1).
get_schema_and_indexes_from_record_default(txn, record, fail) ==
    get_schema_and_indexes(txn,
        IF record.schema_id = None THEN [id |-> 1, version |-> 1]
        ELSE record.schema_id[1], fail)

get_schema_and_indexes_from_record(txn, record, fail) ==
    IF record.schema_id = None THEN Err("SchemaIdentifierNotFound", txn)
    ELSE get_schema_and_indexes(txn, record.schema_id[1], fail)


\* ---------------------------------------------------------------- indexer
\* index::get_primary_key: the values of the schema's primary-key fields.
get_primary_key(primary_index, values) ==
    [i \in 1..Len(primary_index) |-> values[primary_index[i]]]

\* Indexer::_build_index_sorted_inverted: the named field values, in
\* declared order, concatenated.
build_index_sorted_inverted(fields, values) ==
    [i \in 1..Len(fields) |-> values[fields[i]]]

\* DUP_SORT put / del of one <<key, id>> pair in the sub-store `handle`.
DupPut(txn, handle, k, v) ==
    [txn EXCEPT !.index_dbs[handle] = @ \cup { <<k, v>> }]
DupDel(txn, handle, k, v) ==
    [txn EXCEPT !.index_dbs[handle] = @ \ { <<k, v>> }]

\* Indexer::build_indexes, the secondary entries from ordinal idx on.
RECURSIVE build_secondary(_, _, _, _, _, _, _)
build_secondary(reg, txn, record, schema, secondary_indexes, idx, id) ==
    IF idx >= Len(secondary_indexes) THEN Ok(txn, None)
    ELSE LET db == get_db(reg, schema, idx)
             secondary_key ==
                 build_index_sorted_inverted(secondary_indexes[idx + 1].fields,
                                             record.values)
         IN  IF db = None THEN Panic(txn)
             ELSE build_secondary(reg, DupPut(txn, db[1], secondary_key, id),
                                  record, schema, secondary_indexes, idx + 1, id)

\* Indexer::build_indexes, the primary-key entry, written once the secondary
\* entries `s` are.
build_primary(s, record, schema, id, fail) ==
    IF s.out # "ok" THEN s
    ELSE IF fail = "index" THEN Err("QueryError::InsertValue", s.txn)
    ELSE Ok([s.txn EXCEPT !.primary_index =
                DbPut(@, get_primary_key(schema.primary_index, record.values), id)],
            None)

\* Indexer::build_indexes
build_indexes(reg, txn, record, schema, secondary_indexes, id, fail) ==
    build_primary(build_secondary(reg, txn, record, schema, secondary_indexes, 0, id),
                  record, schema, id, fail)

\* Indexer::delete_indexes, the secondary entries from ordinal idx on.
RECURSIVE delete_secondary(_, _, _, _, _, _, _)
delete_secondary(reg, txn, record, schema, secondary_indexes, idx, id) ==
    IF idx >= Len(secondary_indexes) THEN Ok(txn, None)
    ELSE LET db == get_db(reg, schema, idx)
             secondary_key ==
                 build_index_sorted_inverted(secondary_indexes[idx + 1].fields,
                                             record.values)
         IN  IF db = None THEN Panic(txn)
             ELSE IF <<secondary_key, id>> \notin txn.index_dbs[db[1]]
             THEN Err("QueryError::DeleteValue(NotFound)", txn)
             ELSE delete_secondary(reg, DupDel(txn, db[1], secondary_key, id),
                                   record, schema, secondary_indexes, idx + 1, id)

\* Indexer::delete_indexes
delete_indexes(reg, txn, record, schema, secondary_indexes, key, id, fail) ==
    IF key \notin DOMAIN txn.primary_index
    THEN Err("QueryError::DeleteValue(NotFound)", txn)
    ELSE LET t1 == [txn EXCEPT !.primary_index = DbDel(@, key)]
         IN  IF fail = "unindex" THEN Err("QueryError::DeleteValue(StoreError)", t1)
             ELSE delete_secondary(reg, t1, record, schema, secondary_indexes, 0, id)

\* ------------------------------------------------- LmdbCache, in a transaction
\* helper::get: the record stored under an InternalRecordID.
helper_get(txn, id) ==
    IF id \notin DOMAIN txn.db THEN Err("QueryError::GetValue(NotFound)", txn)
    ELSE Ok(txn, DeserializeRecord(txn.db[id]))

get_with_txn(txn, key, fail) ==
    IF fail = "get" THEN Err("QueryError::GetValue(StoreError)", txn)
    ELSE IF key \notin DOMAIN txn.primary_index
    THEN Err("QueryError::GetValue(NotFound)", txn)
    ELSE helper_get(txn, txn.primary_index[key])

\* The InternalRecordID insert_with_txn assigns (lines 97-100).
next_id(txn) == ToBeBytes(ms_entries(txn.db), 8)

\* insert_with_txn after build_indexes returned `b` (lines 107-114). Returns,
\* beside Ok (the code returns ()), the assigned id and whether it was absent
\* from the records store.
insert_with_txn_indexed(txn, id, b) ==
    IF b.out # "ok" THEN b
    ELSE Ok(b.txn, [id |-> id, fresh |-> id \notin DOMAIN txn.db])

\* insert_with_txn from the put of the record under `id` on (lines 101-114).
insert_with_txn_put(reg, txn, record, schema, secondary_indexes, id, fail) ==
    IF fail = "put" THEN Err("QueryError::InsertValue", txn)
    ELSE insert_with_txn_indexed(txn, id,
            build_indexes(reg, [txn EXCEPT !.db = DbPut(@, id, SerializeRecord(record))],
                          record, schema, secondary_indexes, id, fail))

insert_with_txn(reg, txn, record, schema, secondary_indexes, fail) ==
    IF fail = "stat" THEN Err("InternalError(lmdb_stat)", txn)
    ELSE insert_with_txn_put(reg, txn, record, schema, secondary_indexes,
                             next_id(txn), fail)

NotFoundErr == "NotFound"

delete_record_with_txn(txn, key, fail) ==
    IF key \notin DOMAIN txn.primary_index THEN Err(NotFoundErr, txn)
    ELSE LET id == txn.primary_index[key]
         IN  IF fail = "del" THEN Err("StoreError", txn)
             ELSE IF id \notin DOMAIN txn.db THEN Err(NotFoundErr, txn)
             ELSE Ok([txn EXCEPT !.db = DbDel(@, id)], id)

\* delete_with_txn after delete_indexes returned `x` (lines 218-225). Returns
\* the deleted id beside Ok (the code returns ()).
delete_with_txn_done(d, x) == IF x.out # "ok" THEN x ELSE Ok(x.txn, d.val)

\* delete_with_txn after delete_record_with_txn returned `d` (lines 217-225).
delete_with_txn_indexes(reg, d, key, record, schema, secondary_indexes, fail) ==
    IF d.out # "ok" THEN Err("QueryError::DeleteValue", d.txn)
    ELSE delete_with_txn_done(d,
            delete_indexes(reg, d.txn, record, schema, secondary_indexes, key, d.val,
                           fail))

\* delete_with_txn, but leaving every index as it is.
delete_with_txn_record_only(reg, txn, key, record, schema, secondary_indexes, fail) ==
    delete_with_txn_done(delete_record_with_txn(txn, key, fail),
                         delete_record_with_txn(txn, key, fail))

\* delete_with_txn, but removing no secondary-index entry.
delete_with_txn_no_secondary(reg, txn, key, record, schema, secondary_indexes, fail) ==
    delete_with_txn_indexes(reg, delete_record_with_txn(txn, key, fail), key, record,
                            schema, <<>>, fail)

delete_with_txn(reg, txn, key, record, schema, secondary_indexes, fail) ==
    delete_with_txn_indexes(reg, delete_record_with_txn(txn, key, fail), key, record,
                            schema, secondary_indexes, fail)

\* update_with_txn after insert_with_txn returned `i` (lines 239-241). Returns,
\* beside Ok (the code returns ()), the deleted id, the assigned id and
\* whether the assigned id was absent from the records store.
update_with_txn_done(d, i) ==
    IF i.out = "panic" THEN i
    ELSE IF i.out # "ok" THEN Err("InternalError(insert_with_txn)", i.txn)
    ELSE Ok(i.txn, [old |-> d.val, id |-> i.val.id, fresh |-> i.val.fresh])

\* update_with_txn after delete_with_txn returned `d` (lines 238-241).
update_with_txn_insert(reg, d, new, schema, secondary_indexes, fail) ==
    IF d.out # "ok" THEN d
    ELSE update_with_txn_done(d,
            insert_with_txn(reg, d.txn, new, schema, secondary_indexes, fail))

update_with_txn(reg, txn, key, old, new, schema, secondary_indexes, fail) ==
    update_with_txn_insert(reg,
        delete_with_txn(reg, txn, key, old, schema, secondary_indexes, fail),
        new, schema, secondary_indexes, fail)


\* ------------------------------------------------------ impl Cache for LmdbCache
\* txn.commit() on success; on every early return the transaction is dropped,
\* which aborts it.
CommitAlways(before, r) == r.txn

Committed(before, r) == IF r.out = "ok" THEN r.txn ELSE before

\* txn.commit() of a call whose steps returned `r`.
commit(r, fail) ==
    IF r.out = "ok" /\ fail = "commit" THEN Err("InternalError(commit)", r.txn) ELSE r

\* insert once the record's schema is resolved to `s` (lines 249-256).
insert_resolved(reg, s, record, fail) ==
    IF s.out # "ok" THEN s
    ELSE commit(insert_with_txn(reg, s.txn, record, s.val.schema, s.val.indexes, fail),
                fail)

insert(e, reg, record, fail) ==
    IF fail = "begin" THEN Err("InternalError(begin_rw_txn)", e)
    ELSE insert_resolved(reg, get_schema_and_indexes_from_record(e, record, fail),
                         record, fail)

\* delete after its transaction ended with `r`. Returns the deleted record and
\* its id beside Ok (the code returns ()).
delete_done(g, r) ==
    IF r.out # "ok" THEN r ELSE Ok(r.txn, [old |-> r.val, old_record |-> g.val])

\* delete once the record's schema is resolved to `s` (lines 266-271).
delete_resolved(reg, key, g, s, fail) ==
    IF s.out # "ok" THEN s
    ELSE delete_done(g,
            commit(delete_with_txn(reg, s.txn, key, g.val, s.val.schema,
                                   s.val.indexes, fail), fail))

\* delete once get_with_txn returned `g` (lines 264-271).
delete_found(reg, key, g, fail) ==
    IF g.out # "ok" THEN g
    ELSE delete_resolved(reg, key, g,
            get_schema_and_indexes_from_record(g.txn, g.val, fail), fail)

delete(e, reg, key, fail) ==
    IF fail = "begin" THEN Err("InternalError(begin_rw_txn)", e)
    ELSE delete_found(reg, key, get_with_txn(e, key, fail), fail)

get(e, key, fail) ==
    IF fail = "begin" THEN Err("InternalError(begin_ro_txn)", e)
    ELSE get_with_txn(e, key, fail)

\* update after its transaction ended with `r`. Returns the old record and
\* the ids beside Ok (the code returns ()).
update_done(g, s, r) ==
    IF r.out # "ok" THEN r
    ELSE Ok(r.txn, [old |-> r.val.old, id |-> r.val.id, fresh |-> r.val.fresh,
                    old_record |-> g.val, schema |-> s.val.schema,
                    indexes |-> s.val.indexes])

\* update once the OLD record's schema is resolved to `s` (lines 310-320).
update_resolved(reg, key, record, g, s, fail) ==
    IF s.out # "ok" THEN s
    ELSE update_done(g, s,
            commit(update_with_txn(reg, s.txn, key, g.val, record, s.val.schema,
                                   s.val.indexes, fail), fail))

\* update once get_with_txn returned the old record `g` (lines 307-320).
update_found(reg, key, record, g, fail) ==
    IF g.out # "ok" THEN g
    ELSE update_resolved(reg, key, record, g,
            get_schema_and_indexes_from_record(g.txn, g.val, fail), fail)

update(e, reg, key, record, fail) ==
    IF fail = "begin" THEN Err("InternalError(begin_rw_txn)", e)
    ELSE update_found(reg, key, record, get_with_txn(e, key, fail), fail)

get_schema_and_indexes_by_name(e, name, fail) ==
    IF fail = "begin" THEN Err("InternalError(begin_ro_txn)", e)
    ELSE get_schema_from_reverse_key(name, e, fail)

\* get_schema: the schema half of the pair (line 341).
get_schema_only(r) == IF r.out # "ok" THEN r ELSE Ok(r.txn, r.val.schema)

get_schema(e, schema_identifier, fail) ==
    IF fail = "begin" THEN Err("InternalError(begin_ro_txn)", e)
    ELSE get_schema_only(get_schema_and_indexes(e, schema_identifier, fail))


\* utils::init_db(env, Some(name), options, true, false): the DUP_SORT
\* sub-store `name` is created empty unless it exists; created outside any
\* caller transaction, so it stays whatever happens next.
init_db(e, name) ==
    [e EXCEPT !.index_dbs =
        [x \in DOMAIN @ \cup {name} |-> IF x \in DOMAIN @ THEN @[x] ELSE {}]]

\* The loop of insert_schema (lines 350-361), from ordinal idx on.
RECURSIVE create_indexes(_, _, _, _, _, _)
create_indexes(e, reg, schema, secondary_indexes, idx, fail) ==
    IF idx >= Len(secondary_indexes) THEN [out |-> "ok", env |-> e, reg |-> reg]
    ELSE IF schema.identifier = None THEN [out |-> "panic", env |-> e, reg |-> reg]
    ELSE IF fail = "init_db" /\ idx = Len(secondary_indexes) - 1
    THEN [out |-> "InternalError(init_db)", env |-> e, reg |-> reg]
    ELSE LET key == get_key(schema, idx)
             name == IndexDbName(key)
         IN  create_indexes(init_db(e, name), insert_index(reg, key, name),
                            schema, secondary_indexes, idx + 1, fail)

\* insert_schema, were the writes of a failed transaction to stay.
insert_schema_done_partial(c, r) ==
    [out |-> r.out, env |-> r.txn, reg |-> c.reg]

\* insert_schema after its transaction ended with `r` (lines 363-370).
insert_schema_done(c, r) ==
    [out |-> r.out, env |-> Committed(c.env, r), reg |-> c.reg]

\* insert_schema once the loop returned `c` (lines 363-370).
insert_schema_txn(c, name, schema, secondary_indexes, fail) ==
    IF c.out # "ok" THEN c
    ELSE insert_schema_done(c,
            IF fail = "begin" THEN Err("InternalError(begin_rw_txn)", c.env)
            ELSE commit(insert_schema_with_txn(c.env, schema, name, secondary_indexes,
                                               fail), fail))

insert_schema(e, reg, name, schema, secondary_indexes, fail) ==
    insert_schema_txn(create_indexes(e, reg, schema, secondary_indexes, 0, fail),
                      name, schema, secondary_indexes, fail)

\* The lookup key build_indexes derives for a record (every schema of the
\* model has primary_index = [first field]).
LookupKeyOf(record) == get_primary_key(<<1>>, record.values)

\* What `last` keeps of a call that did not return Ok.
Failed(op, r) == [op |-> op, out |-> r.out]

\* LmdbCache::new on a fresh environment.
Init ==
    /\ env = [db |-> EmptyDb, primary_index |-> EmptyDb, schema_db |-> EmptyDb,
              index_dbs |-> <<>>]
    /\ indexes = <<>>
    /\ last = [op |-> "new", out |-> "ok"]
    /\ lastInsertId = None
    /\ writers = [t \in WriterThreads |-> Idle]
    /\ readers = [t \in ReaderThreads |-> Idle]

InsertSchema(name, ident, shape, fail) ==
    /\ LET schema == MkSchema(ident, shape)
           r == insert_schema(env, indexes, name, schema, shape.indexes, fail)
       IN  /\ env' = r.env
           /\ indexes' = r.reg
           /\ last' = IF r.out # "ok" THEN Failed("insert_schema", r)
                      ELSE [op |-> "insert_schema", out |-> r.out, name |-> name,
                            schema |-> schema, indexes |-> shape.indexes]
    /\ UNCHANGED << lastInsertId, writers, readers >>

Insert(record, fail) ==
    /\ ms_entries(env.db) < MaxRecords
    /\ LET r == insert(env, indexes, record, fail)
       IN  /\ env' = Committed(env, r)
           /\ last' = IF r.out # "ok" THEN Failed("insert", r)
                      ELSE [op |-> "insert", out |-> r.out, rec |-> record,
                            id |-> r.val.id, fresh |-> r.val.fresh]
           /\ lastInsertId' = IF r.out = "ok" THEN Some(r.val.id) ELSE lastInsertId
    /\ UNCHANGED << indexes, writers, readers >>

Delete(key, fail) ==
    /\ LET r == delete(env, indexes, key, fail)
       IN  /\ env' = Committed(env, r)
           /\ last' = IF r.out # "ok" THEN Failed("delete", r)
                      ELSE [op |-> "delete", out |-> r.out, key |-> key]
    /\ UNCHANGED << indexes, lastInsertId, writers, readers >>

Update(key, record, fail) ==
    /\ LET r == update(env, indexes, key, record, fail)
       IN  /\ env' = Committed(env, r)
           /\ last' = IF r.out # "ok" THEN Failed("update", r)
                      ELSE [op |-> "update", out |-> r.out, key |-> key,
                            rec |-> record, old |-> r.val.old_record,
                            old_id |-> r.val.old, id |-> r.val.id,
                            fresh |-> r.val.fresh]
           /\ lastInsertId' = IF r.out = "ok" THEN Some(r.val.id) ELSE lastInsertId
    /\ UNCHANGED << indexes, writers, readers >>

\* The registration the record-level specifications draw from.
SpecRegistrations ==
    { [name |-> <<97>>, ident |-> Some([id |-> 1, version |-> 1]),
       shape |-> [fields |-> <<1, 2>>, indexes |-> << SortedInverted(<<2>>) >>]] }

Next ==
    \/ \E g \in SpecRegistrations : InsertSchema(g.name, g.ident, g.shape, "none")
    \/ \E record \in InputRecords : Insert(record, "none")
    \/ \E key \in LookupKeys : Delete(key, "none")
    \/ \E key \in LookupKeys, record \in InputRecords : Update(key, record, "none")

Spec == Init /\ [][Next]_vars


\* The records the fault-injecting specification draws from.
FaultRecords ==
    { [schema_id |-> Some([id |-> 1, version |-> 1]), values |-> <<1, 2>>],
      [schema_id |-> Some([id |-> 1, version |-> 1]), values |-> <<2, 1>>] }

\* The same operations, with the store failing at any one step of a call.
NextFault ==
    \/ \E g \in SpecRegistrations,
          fail \in {"none", "init_db", "begin", "put", "rput", "commit"} :
            InsertSchema(g.name, g.ident, g.shape, fail)
    \/ \E record \in FaultRecords,
          fail \in {"none", "begin", "schema", "stat", "put", "index", "commit"} :
            Insert(record, fail)
    \/ \E key \in LookupKeys,
          fail \in {"none", "begin", "get", "schema", "del", "unindex", "commit"} :
            Delete(key, fail)
    \/ \E key \in LookupKeys, record \in FaultRecords,
          fail \in {"none", "begin", "get", "schema", "del", "unindex", "stat",
                    "put", "index", "commit"} :
            Update(key, record, fail)

FaultSpec == Init /\ [][NextFault]_vars

\* ------------------------------------------- an engine over an existing store
\* LmdbCache::new over the environment as it is: the three stores are opened
\* with what they hold, the registry starts empty.
New ==
    /\ indexes' = <<>>
    /\ last' = [op |-> "new", out |-> "ok"]
    /\ UNCHANGED << env, lastInsertId, writers, readers >>

\* The records inserted there: two of the registered schema, one without
\* schema identifier, one of an identifier that is not registered.
ReopenRecords ==
    FaultRecords
    \cup { [schema_id |-> None, values |-> <<1, 1>>],
           [schema_id |-> Some([id |-> 1, version |-> 2]), values |-> <<1, 1>>] }

\* The operations of one engine after another over one environment, and
\* registrations of a schema with and without an identifier.
NextReopen ==
    \/ \E g \in SpecRegistrations :
         \E ident \in {None, g.ident} : InsertSchema(g.name, ident, g.shape, "none")
    \/ New
    \/ \E record \in ReopenRecords : Insert(record, "none")
    \/ \E key \in LookupKeys : Delete(key, "none")
    \/ \E key \in LookupKeys, record \in FaultRecords : Update(key, record, "none")

ReopenSpec == Init /\ [][NextReopen]_vars

\* ------------------------------------------------- the schema catalog alone
\* Registrations of every identifier under every name with every shape; the
\* catalog transaction may fail at commit.
NextCatalog ==
    \E name \in Names, i \in SchemaIdentifiers, shape \in SchemaShapes,
       fail \in {"none", "commit"} :
        InsertSchema(name, Some(i), shape, fail)

CatalogSpec == Init /\ [][NextCatalog]_vars

\* Registrations whose calls may fail at each step of insert_schema.
NextCatalogFault ==
    \E name \in Names, i \in SchemaIdentifiers, shape \in SchemaShapes,
       fail \in {"none", "init_db", "begin", "put", "rput", "commit"} :
        InsertSchema(name, Some(i), shape, fail)

CatalogFaultSpec == Init /\ [][NextCatalogFault]_vars

\* ------------------------------------------------------- concurrent callers
\* The calls the threads of the concurrent specifications make.
ConcRecords ==
    { [schema_id |-> Some([id |-> 1, version |-> 1]), values |-> <<1, 1>>],
      [schema_id |-> Some([id |-> 1, version |-> 1]), values |-> <<2, 1>>] }

WriteCalls ==
    { [op |-> "insert", key |-> LookupKeyOf(r), rec |-> r] : r \in ConcRecords }
    \cup { [op |-> "delete", key |-> <<1>>,
            rec |-> [schema_id |-> None, values |-> <<>>]] }
    \cup { [op |-> "update", key |-> <<2>>,
            rec |-> [schema_id |-> Some([id |-> 1, version |-> 1]),
                     values |-> <<2, 2>>]] }

\* The calls of the writing thread that runs beside a reader: all on one
\* lookup key.
ReadSpecCalls ==
    { [op |-> "insert", key |-> <<1>>,
       rec |-> [schema_id |-> Some([id |-> 1, version |-> 1]), values |-> <<1, 1>>]],
      [op |-> "delete", key |-> <<1>>,
       rec |-> [schema_id |-> None, values |-> <<>>]],
      [op |-> "update", key |-> <<1>>,
       rec |-> [schema_id |-> Some([id |-> 1, version |-> 1]), values |-> <<1, 2>>]] }

\* The positions at which a thread holds a write transaction.
ActivePcs ==
    {"delete_record", "delete_indexes", "put", "build_indexes", "commit",
     "schema_commit"}

\* A call is in flight from its invocation to its return or failure.
InFlight(w) == w.pc \in ActivePcs \cup {"begin"}

\* Environment::begin_rw_txn returns to thread t only while no other thread
\* holds a write transaction (LMDB's writer mutex).
begin_rw_txn(ws, t) == \A u \in DOMAIN ws \ {t} : ws[u].pc \notin ActivePcs

\* Environment::begin_ro_txn, were it to read the pages of the write
\* transaction in progress.
begin_ro_txn_dirty(e, ws) ==
    IF \E u \in DOMAIN ws : ws[u].pc \in ActivePcs
    THEN ws[CHOOSE u \in DOMAIN ws : ws[u].pc \in ActivePcs].txn
    ELSE e

\* Environment::begin_ro_txn: the snapshot is the last committed state.
begin_ro_txn(e, ws) == e

\* A thread invokes a mutating operation. `overlap` records that another
\* call was in flight at some time during this one.
Call(t, c) ==
    /\ writers[t].pc = "idle"
    /\ writers' =
         [u \in WriterThreads |->
            IF u = t
            THEN [pc |-> "begin", call |-> c,
                  overlap |-> \E v \in WriterThreads \ {t} : InFlight(writers[v])]
            ELSE IF InFlight(writers[u]) THEN [writers[u] EXCEPT !.overlap = TRUE]
            ELSE writers[u]]
    /\ UNCHANGED << env, indexes, last, lastInsertId, readers >>

\* The thread's position once begin_rw_txn has returned and the reads that
\* precede the first write are done: `g` the old record (delete, update), `s`
\* the schema resolved.
Started(w, e, g, s) ==
    IF g.out # "ok" \/ s.out # "ok" THEN Idle
    ELSE [pc |-> IF w.call.op = "insert" THEN "put" ELSE "delete_record",
          call |-> w.call, overlap |-> w.overlap, txn |-> e,
          old |-> g.val, schema |-> s.val.schema, secondary |-> s.val.indexes,
          id |-> None]

\* begin_rw_txn, then get_with_txn (delete, update) and the schema
\* resolution; an error returns from the call, dropping the transaction.
Begin(t) ==
    /\ writers[t].pc = "begin"
    /\ begin_rw_txn(writers, t)
    /\ writers[t].call.op = "insert" => ms_entries(env.db) < MaxRecords
    /\ writers' =
         [writers EXCEPT ![t] =
            IF @.call.op = "insert"
            THEN Started(@, env, Ok(env, @.call.rec),
                         get_schema_and_indexes_from_record(env, @.call.rec, "none"))
            ELSE Started(@, env, get_with_txn(env, @.call.key, "none"),
                         get_schema_and_indexes_from_record(
                             env, get_with_txn(env, @.call.key, "none").val, "none"))]
    /\ UNCHANGED << env, indexes, last, lastInsertId, readers >>

\* delete_record_with_txn in the thread's transaction.
AfterDeleteRecord(w, d) ==
    IF d.out # "ok" THEN Idle
    ELSE [w EXCEPT !.pc = "delete_indexes", !.txn = d.txn, !.id = Some(d.val)]

DeleteRecord(t) ==
    /\ writers[t].pc = "delete_record"
    /\ writers' =
         [writers EXCEPT ![t] =
            AfterDeleteRecord(@, delete_record_with_txn(@.txn, @.call.key, "none"))]
    /\ UNCHANGED << env, indexes, last, lastInsertId, readers >>

\* Indexer::delete_indexes in the thread's transaction.
AfterDeleteIndexes(w, x) ==
    IF x.out # "ok" THEN Idle
    ELSE [w EXCEPT !.pc = IF w.call.op = "update" THEN "put" ELSE "commit",
                   !.txn = x.txn]

DeleteIndexes(t) ==
    /\ writers[t].pc = "delete_indexes"
    /\ writers' =
         [writers EXCEPT ![t] =
            AfterDeleteIndexes(@,
                delete_indexes(indexes, @.txn, @.old, @.schema, @.secondary,
                               @.call.key, @.id[1], "none"))]
    /\ UNCHANGED << env, indexes, last, lastInsertId, readers >>

\* insert_with_txn up to the put of the record (lines 97-105).
AfterPut(w, id) ==
    [w EXCEPT !.pc = "build_indexes", !.id = Some(id),
              !.txn.db = DbPut(@, id, SerializeRecord(w.call.rec))]

Put(t) ==
    /\ writers[t].pc = "put"
    /\ writers' = [writers EXCEPT ![t] = AfterPut(@, next_id(@.txn))]
    /\ UNCHANGED << env, indexes, last, lastInsertId, readers >>

\* Indexer::build_indexes in the thread's transaction.
AfterBuildIndexes(w, b) ==
    IF b.out # "ok" THEN Idle ELSE [w EXCEPT !.pc = "commit", !.txn = b.txn]

BuildIndexes(t) ==
    /\ writers[t].pc = "build_indexes"
    /\ writers' =
         [writers EXCEPT ![t] =
            AfterBuildIndexes(@,
                build_indexes(indexes, @.txn, @.call.rec, @.schema, @.secondary,
                              @.id[1], "none"))]
    /\ UNCHANGED << env, indexes, last, lastInsertId, readers >>

\* txn.commit(): the transaction's contents become the committed state. A
\* thread that inserted keeps the record and the ID it was given until it
\* returns.
Commit(t) ==
    /\ writers[t].pc = "commit"
    /\ env' = writers[t].txn
    /\ writers' =
         [writers EXCEPT ![t] =
            IF @.call.op = "insert"
            THEN [pc |-> "done", call |-> @.call, overlap |-> @.overlap, id |-> @.id]
            ELSE Idle]
    /\ UNCHANGED << indexes, last, lastInsertId, readers >>

Return(t) ==
    /\ writers[t].pc = "done"
    /\ writers' = [writers EXCEPT ![t] = Idle]
    /\ UNCHANGED << env, indexes, last, lastInsertId, readers >>

\* insert_schema, a whole call while no write transaction is open.
RegisterSchema(g) ==
    /\ \A u \in WriterThreads : writers[u].pc \notin ActivePcs
    /\ InsertSchema(g.name, g.ident, g.shape, "none")

\* get: begin_ro_txn (lines 275-278). `began` keeps the committed state at
\* that moment, `during` whether a write transaction then held uncommitted
\* changes.
ReadBegin(r, key) ==
    /\ readers[r].pc = "idle"
    /\ readers' =
         [readers EXCEPT ![r] =
            [pc |-> "lookup", key |-> key, txn |-> begin_ro_txn(env, writers),
             began |-> env, id |-> None,
             during |-> \E t \in WriterThreads :
                           writers[t].pc \in ActivePcs /\ writers[t].txn # env]]
    /\ UNCHANGED << env, indexes, last, lastInsertId, writers >>

\* get_with_txn: txn.get(self.primary_index, key) (lines 193-195); NotFound
\* returns from the call.
AfterLookup(rd, id) ==
    IF id = None THEN Idle ELSE [rd EXCEPT !.pc = "fetch", !.id = id]

ReadLookup(r) ==
    /\ readers[r].pc = "lookup"
    /\ readers' =
         [readers EXCEPT ![r] = AfterLookup(@, DbGet(@.txn.primary_index, @.key))]
    /\ UNCHANGED << env, indexes, last, lastInsertId, writers >>

\* get_with_txn: helper::get(txn, self.db, id) (line 196); the call returns.
ReadFetch(r) ==
    /\ readers[r].pc = "fetch"
    /\ readers' = [readers EXCEPT ![r] = Idle]
    /\ UNCHANGED << env, indexes, last, lastInsertId, writers >>

\* Two writing threads.
NextWrite ==
    \/ \E g \in SpecRegistrations : RegisterSchema(g)
    \/ \E t \in WriterThreads, c \in WriteCalls : Call(t, c)
    \/ \E t \in WriterThreads : Begin(t)
    \/ \E t \in WriterThreads : DeleteRecord(t)
    \/ \E t \in WriterThreads : DeleteIndexes(t)
    \/ \E t \in WriterThreads : Put(t)
    \/ \E t \in WriterThreads : BuildIndexes(t)
    \/ \E t \in WriterThreads : Commit(t)
    \/ \E t \in WriterThreads : Return(t)

WriteSpec == Init /\ [][NextWrite]_vars

\* One writing thread and one reading thread.
NextRead ==
    \/ \E g \in SpecRegistrations : RegisterSchema(g)
    \/ \E c \in ReadSpecCalls : Call("w1", c)
    \/ Begin("w1")
    \/ DeleteRecord("w1")
    \/ DeleteIndexes("w1")
    \/ Put("w1")
    \/ BuildIndexes("w1")
    \/ Commit("w1")
    \/ Return("w1")
    \/ \E r \in ReaderThreads : ReadBegin(r, <<1>>)
    \/ \E r \in ReaderThreads : ReadLookup(r)
    \/ \E r \in ReaderThreads : ReadFetch(r)

ReadSpec == Init /\ [][NextRead]_vars


\* ------------------------------------------------- insert_schema, stepwise
\* The order of the steps of insert_schema, were the catalog transaction to
\* run before the loop that creates and registers the index sub-stores.
insert_schema_steps_catalog_first(n) ==
    << "schema_begin", "schema_commit" >> \o [i \in 1..n |-> "create_index"]

\* The order of the steps of insert_schema for n index definitions: one
\* iteration of the loop per definition (lines 350-361), then begin_rw_txn
\* with insert_schema_with_txn (lines 363-367), then txn.commit (line 368).
insert_schema_steps(n) ==
    [i \in 1..n |-> "create_index"] \o << "schema_begin", "schema_commit" >>

\* The schemas the stepwise registration draws from.
StepRegistrations ==
    { [name |-> <<97>>, ident |-> Some(i), shape |-> shape] :
        i \in { [id |-> 1, version |-> 1], [id |-> 2, version |-> 1] },
        shape \in SchemaShapes }

\* The calls that run beside a stepwise registration.
StepCalls ==
    { [op |-> "insert", key |-> <<1>>,
       rec |-> [schema_id |-> Some([id |-> 1, version |-> 1]), values |-> <<1, 1>>]],
      [op |-> "insert", key |-> <<2>>,
       rec |-> [schema_id |-> Some([id |-> 2, version |-> 1]), values |-> <<2, 1>>]] }

\* The thread at step `pos` of its insert_schema call, `idx` iterations of
\* the loop done; past the last step the call has returned.
SchemaAt(c, pos, idx, overlap, txn) ==
    IF pos > Len(insert_schema_steps(Len(c.secondary))) THEN Idle
    ELSE [pc |-> insert_schema_steps(Len(c.secondary))[pos], call |-> c,
          pos |-> pos, idx |-> idx, overlap |-> overlap, txn |-> txn]

\* A thread invokes insert_schema.
CallSchema(t, g) ==
    /\ writers[t].pc = "idle"
    /\ writers' =
         [u \in WriterThreads |->
            IF u = t
            THEN SchemaAt([op |-> "insert_schema", name |-> g.name,
                           schema |-> MkSchema(g.ident, g.shape),
                           secondary |-> g.shape.indexes],
                          1, 0, \E v \in WriterThreads \ {t} : InFlight(writers[v]),
                          None)
            ELSE IF InFlight(writers[u]) THEN [writers[u] EXCEPT !.overlap = TRUE]
            ELSE writers[u]]
    /\ UNCHANGED << env, indexes, last, lastInsertId, readers >>

\* One iteration of the loop (lines 350-361): utils::init_db creates the
\* sub-store in a write transaction of its own, then insert_index.
CreateIndex(t) ==
    /\ writers[t].pc = "create_index"
    /\ begin_rw_txn(writers, t)
    /\ env' = init_db(env, IndexDbName(get_key(writers[t].call.schema, writers[t].idx)))
    /\ indexes' = insert_index(indexes,
                               get_key(writers[t].call.schema, writers[t].idx),
                               IndexDbName(get_key(writers[t].call.schema,
                                                   writers[t].idx)))
    /\ writers' = [writers EXCEPT ![t] =
                     SchemaAt(@.call, @.pos + 1, @.idx + 1, @.overlap, None)]
    /\ UNCHANGED << last, lastInsertId, readers >>

\* begin_rw_txn and insert_schema_with_txn (lines 363-367).
SchemaBegin(t) ==
    /\ writers[t].pc = "schema_begin"
    /\ begin_rw_txn(writers, t)
    /\ writers' =
         [writers EXCEPT ![t] =
            SchemaAt(@.call, @.pos + 1, @.idx, @.overlap,
                     insert_schema_with_txn(env, @.call.schema, @.call.name,
                                            @.call.secondary, "none").txn)]
    /\ UNCHANGED << env, indexes, last, lastInsertId, readers >>

\* txn.commit (line 368).
SchemaCommit(t) ==
    /\ writers[t].pc = "schema_commit"
    /\ env' = writers[t].txn
    /\ writers' = [writers EXCEPT ![t] =
                     SchemaAt(@.call, @.pos + 1, @.idx, @.overlap, None)]
    /\ UNCHANGED << indexes, last, lastInsertId, readers >>

\* One thread registering schemas step by step beside one thread writing
\* records.
NextRegister ==
    \/ \E g \in StepRegistrations : CallSchema("w1", g)
    \/ CreateIndex("w1")
    \/ SchemaBegin("w1")
    \/ SchemaCommit("w1")
    \/ \E c \in StepCalls : Call("w2", c)
    \/ Begin("w2")
    \/ Put("w2")
    \/ BuildIndexes("w2")
    \/ Commit("w2")
    \/ Return("w2")

RegisterSpec == Init /\ [][NextRegister]_vars


\* ============================================================ the claims
Succeeded(op) == last.op = op /\ last.out = "ok"

\* The schema and index definitions the catalog holds for a record, as a
\* transaction on the committed state resolves them.
SchemaOf(record) == get_schema_and_indexes_from_record(env, record, "none")

\* The sub-store of ordinal idx (from 0) of a schema, through the registry.
IndexStore(schema, idx) == env.index_dbs[get_db(indexes, schema, idx)[1]]

\* C1: the InternalRecordIDs assigned by successive committed inserts (the
\* insert half of an update included) are strictly increasing, and an insert
\* never assigns an ID that is the key of a record present in the records
\* store.
C1_IdsStrictlyIncreasing ==
    [][ (last'.op \in {"insert", "update"} /\ last'.out = "ok")
        => /\ last'.fresh
           /\ \/ lastInsertId = None
              \/ FromBeBytes(last'.id) > FromBeBytes(lastInsertId[1]) ]_vars

\* C2: every record present in the records store has exactly one primary-key
\* index entry pointing to its InternalRecordID and, for each IndexDefinition
\* declared for its schema, exactly one entry of that index's sub-store
\* pointing to it.
C2_OneEntryPerLiveRecord ==
    \A id \in DOMAIN env.db :
        /\ Cardinality({k \in DOMAIN env.primary_index : env.primary_index[k] = id}) = 1
        /\ LET s == SchemaOf(DeserializeRecord(env.db[id]))
           IN  s.out = "ok" =>
                 \A idx \in 0..(Len(s.val.indexes) - 1) :
                    /\ get_db(indexes, s.val.schema, idx) # None
                    /\ Cardinality({e \in IndexStore(s.val.schema, idx) : e[2] = id}) = 1

\* C3: right after insert(R) has committed, get of R's lookup key returns a
\* record equal to R.
C3_RoundTrip ==
    Succeeded("insert") =>
        LET g == get(env, LookupKeyOf(last.rec), "none")
        IN  g.out = "ok" /\ g.val = last.rec

\* C3 witness: an insert committed, and the ID it was given was already the
\* key of a stored record.
C3_Witness == Succeeded("insert") /\ ~last.fresh

\* insert(record) in the transaction in which delete returned `d`.
InsertAfterDelete(reg, d, record) ==
    IF d.out # "ok" THEN d
    ELSE insert_resolved(reg, get_schema_and_indexes_from_record(d.txn, record, "none"),
                         record, "none")

\* delete(key) followed by insert(record), in one transaction.
DeleteThenInsert(e, reg, key, record) ==
    InsertAfterDelete(reg, delete(e, reg, key, "none"), record)

\* C4: update(key, newRecord) returns the same success/error outcome and
\* leaves the same committed state as delete(key) followed by
\* insert(newRecord) inside one transaction.
C4_UpdateIsDeleteThenInsert ==
    [][ \A key \in LookupKeys, record \in InputRecords :
          Update(key, record, "none") =>
            LET r == DeleteThenInsert(env, indexes, key, record)
            IN  /\ (last'.out = "ok") = (r.out = "ok")
                /\ env' = Committed(env, r) ]_vars

\* C5: after a successful update(key, R2) of the record R1, for each
\* IndexDefinition of the schema the entry derived from R2's field values
\* pointing to the updated record's InternalRecordID is present in that
\* index's sub-store, and the entry derived from R1's field values pointing
\* to the InternalRecordID R1 had is not there (unless it is that very entry
\* of R2).
C5_UpdateReindexes ==
    Succeeded("update") =>
        LET s == SchemaOf(last.old)
        IN  \A idx \in 0..(Len(s.val.indexes) - 1) :
              LET fields == s.val.indexes[idx + 1].fields
                  old_entry == << build_index_sorted_inverted(fields, last.old.values),
                                  last.old_id >>
                  new_entry == << build_index_sorted_inverted(fields, last.rec.values),
                                  last.id >>
              IN  /\ new_entry \in IndexStore(s.val.schema, idx)
                  /\ old_entry # new_entry => old_entry \notin IndexStore(s.val.schema, idx)

\* C5 witness: an update committed that changed an indexed field value.
C5_Witness ==
    /\ Succeeded("update")
    /\ last.old.values[2] # last.rec.values[2]

\* C6: after a successful update the primary-key index entry of the updated
\* record points to an InternalRecordID different from the one the record had
\* immediately before the update.
C6_UpdateAssignsNewId ==
    Succeeded("update") =>
        /\ env.primary_index[LookupKeyOf(last.rec)] = last.id
        /\ last.id # last.old_id


\* C7: whenever insert, delete or update returns an error, at whichever step,
\* the committed contents of the records store, the primary-key index, every
\* secondary index and the schema catalog are what they were before the
\* call (so get, which reads only them, answers every key as before).
C7_ErrorAtomicity ==
    [][ (last'.op \in {"insert", "delete", "update"} /\ last'.out # "ok")
        => env' = env ]_vars

\* C7 witness: an update failed in its insert half, after its delete half
\* had removed the old record inside the transaction.
C7_Witness ==
    /\ last.op = "update"
    /\ last.out = "InternalError(insert_with_txn)"
    /\ \E key \in LookupKeys : get(env, key, "none").out = "ok"

\* The SchemaRecords the catalog holds (the entries under the "sc#" prefix).
SchemaRecords(e) ==
    { DeserializeSchema(e.schema_db[k]) :
        k \in { x \in DOMAIN e.schema_db : SubSeq(x, 1, 3) = <<115, 99, 35>> } }

\* A lookup answered Ok with the value v.
Answers(r, v) == r.out = "ok" /\ r.val = v

\* Two lookups answered alike.
SameAnswer(r1, r2) == r1.out = r2.out /\ (r1.out = "ok" => r1.val = r2.val)

SingleWriter == Cardinality({t \in WriterThreads : writers[t].pc \in ActivePcs}) <= 1

\* C9: at most one write transaction is active at a time, and two inserts
\* of records with different lookup keys whose calls overlapped are given
\* different InternalRecordIDs and, once both have committed, each record
\* is what get returns for its own lookup key.
C9_WritesSerialized ==
    /\ SingleWriter
    /\ \A t, u \in WriterThreads :
          ( /\ t # u
            /\ writers[t].pc = "done" /\ writers[u].pc = "done"
            /\ writers[t].overlap /\ writers[u].overlap
            /\ writers[t].call.key # writers[u].call.key )
          => /\ writers[t].id # writers[u].id
             /\ Answers(get(env, writers[t].call.key, "none"), writers[t].call.rec)

\* C10: a committed registration of a schema (one that does not replace a
\* SchemaRecord of the same identifier by a different one) makes get_schema
\* of its exact (id, version) return its schema and leaves what get_schema
\* returns for every other identifier, the other versions of the same id
\* included, as it was; get_schema_and_indexes_by_name of its name returns
\* its schema and index definitions, and every other name resolves as before.
C10_SchemaVersioning ==
    [][ ( /\ last'.op = "insert_schema" /\ last'.out = "ok"
          /\ \A d \in SchemaRecords(env) :
                d.schema.identifier = last'.schema.identifier
                    => d = [schema |-> last'.schema, indexes |-> last'.indexes] )
        => /\ \A i \in SchemaIdentifiers :
                IF Some(i) = last'.schema.identifier
                THEN Answers(get_schema(env', i, "none"), last'.schema)
                ELSE SameAnswer(get_schema(env', i, "none"), get_schema(env, i, "none"))
           /\ \A n \in Names :
                IF n = last'.name
                THEN Answers(get_schema_and_indexes_by_name(env', n, "none"),
                             [schema |-> last'.schema, indexes |-> last'.indexes])
                ELSE SameAnswer(get_schema_and_indexes_by_name(env', n, "none"),
                                get_schema_and_indexes_by_name(env, n, "none")) ]_vars

\* C10 witness: version 2 of schema id 1 was just registered under the name
\* under which version 1, with other fields, was registered before.
C10_Witness ==
    /\ Succeeded("insert_schema")
    /\ last.schema.identifier = Some([id |-> 1, version |-> 2])
    /\ last.name = <<97>>
    /\ get_schema_and_indexes_by_name(env, <<98>>, "none").out # "ok"
    /\ get_schema(env, [id |-> 1, version |-> 1], "none").out = "ok"
    /\ get_schema(env, [id |-> 1, version |-> 1], "none").val.fields # last.schema.fields

\* C11: once a registration of an identifier has committed, get_schema of
\* that identifier, and the index definitions stored with it, stay what they
\* are through every later operation, a later insert_schema of the same
\* (id, version) with other fields or index definitions included.
C11_SchemaRecordsImmutable ==
    [][ \A i \in SchemaIdentifiers :
          get_schema(env, i, "none").out = "ok"
            => /\ SameAnswer(get_schema(env', i, "none"), get_schema(env, i, "none"))
               /\ SameAnswer(get_schema_and_indexes(env', i, "none"),
                             get_schema_and_indexes(env, i, "none")) ]_vars

\* C12: no call of a public operation ends in a panic: every call returns
\* Ok or a typed error, also insert_schema of a schema without identifier
\* and insert, delete and update on an engine constructed over an
\* environment whose catalog already holds schemas.
C12_NoPanic == last.out # "panic"

\* C13: insert of a record that has no schema identifier, or whose
\* identifier has no SchemaRecord in the catalog, returns the error of the
\* failed schema resolution, writes nothing to any store and assigns no
\* InternalRecordID.
C13_InsertWithoutSchemaRejected ==
    [][ \A record \in ReopenRecords :
          ( /\ Insert(record, "none")
            /\ \/ record.schema_id = None
               \/ \A d \in SchemaRecords(env) : d.schema.identifier # record.schema_id )
          => /\ last'.op = "insert"
             /\ last'.out = IF record.schema_id = None THEN "SchemaIdentifierNotFound"
                            ELSE "QueryError::GetValue(NotFound)"
             /\ env' = env
             /\ lastInsertId' = lastInsertId ]_vars

\* C13 witness: an insert was rejected for want of a schema while the
\* catalog holds a schema and the records store a record.
C13_Witness ==
    /\ last.op = "insert"
    /\ last.out \in {"SchemaIdentifierNotFound", "QueryError::GetValue(NotFound)"}
    /\ DOMAIN env.schema_db # {}
    /\ DOMAIN env.db # {}

\* The error get and delete return for a lookup key that the primary-key
\* index does not hold.
KeyNotFound == "QueryError::GetValue(NotFound)"

\* C14: a successful delete(key) leaves key out of the primary-key index;
\* while a key is out of it get(key) fails with key-not-found, and the key
\* stays out through every step but a successful insert or update of a
\* record with that lookup key; delete(key) of such a key fails with
\* key-not-found and changes nothing.
C14_DeletedKeyNotFound ==
    [][ \A key \in LookupKeys :
          /\ (last'.op = "delete" /\ last'.out = "ok" /\ last'.key = key)
                => /\ key \notin DOMAIN env'.primary_index
                   /\ get(env', key, "none").out = KeyNotFound
          /\ key \notin DOMAIN env.primary_index
                => /\ get(env, key, "none").out = KeyNotFound
                   /\ delete(env, indexes, key, "none").out = KeyNotFound
                   /\ Delete(key, "none") => (last'.out = KeyNotFound /\ env' = env)
                   /\ ~( /\ last'.op \in {"insert", "update"}
                         /\ last'.out = "ok"
                         /\ LookupKeyOf(last'.rec) = key )
                        => get(env', key, "none").out = KeyNotFound ]_vars

\* C14 witness: a delete succeeded while another record stays stored.
C14_Witness ==
    /\ Succeeded("delete")
    /\ get(env, last.key, "none").out = KeyNotFound
    /\ DOMAIN env.primary_index # {}

\* The catalog of state e names no index definition that the registry does
\* not hold a handle for.
Registered(e, reg) ==
    \A d \in SchemaRecords(e) :
        \A idx \in 0..(Len(d.indexes) - 1) : get_db(reg, d.schema, idx) # None

\* C15: under every interleaving of a stepwise insert_schema with the
\* steps of a thread writing records, whenever a schema resolves from the
\* catalog (in the committed state or in a write transaction in progress),
\* the registry holds a handle for every ordinal of its index definitions.
C15_RegistrationPrecedesVisibility ==
    /\ Registered(env, indexes)
    /\ \A t \in WriterThreads :
          writers[t].pc \in ActivePcs => Registered(writers[t].txn, indexes)

\* A record-writing thread holds a transaction that resolved a schema while
\* another insert_schema call is between its steps.
C15_Witness ==
    /\ writers["w2"].pc = "build_indexes"
    /\ writers["w1"].pc \in {"create_index", "schema_begin"}
    /\ SchemaRecords(env) # {}

\* The (schema identifier, index ordinal) pairs of the index definitions the
\* catalog of state e holds.
RegisteredPairs(e) ==
    UNION { { << d.schema.identifier, idx >> : idx \in 0..(Len(d.indexes) - 1) } :
              d \in SchemaRecords(e) }

\* C16: two distinct registered (schema identifier, index ordinal) pairs,
\* differing in schema id, schema version or ordinal, are never resolved by
\* get_db to the same registry entry or the same sub-store.
C16_OwnHandlePerPair ==
    \A p, q \in RegisteredPairs(env) :
        p # q => /\ get_key([identifier |-> p[1]], p[2])
                      # get_key([identifier |-> q[1]], q[2])
                 /\ get_db(indexes, [identifier |-> p[1]], p[2])
                      # get_db(indexes, [identifier |-> q[1]], q[2])

\* C17: in every committed state, each SchemaNameEntry points to a
\* SchemaIdentifier whose SchemaRecord exists, so that
\* get_schema_and_indexes_by_name of a name that has an entry succeeds.
C17_NameEntryHasRecord ==
    \A n \in Names :
        DbGet(env.schema_db, get_schema_reverse_key(n)) # None
            => /\ \E d \in SchemaRecords(env) :
                     d.schema.identifier =
                        Some(DeserializeSchemaId(
                                DbGet(env.schema_db, get_schema_reverse_key(n))[1]))
               /\ get_schema_and_indexes_by_name(env, n, "none").out = "ok"

\* C17 witness: a registration has just failed at the put of the
\* SchemaNameEntry, after the put of its SchemaRecord, while one name has an
\* entry and the other has none.
C17_Witness ==
    /\ last.op = "insert_schema" /\ last.out = "QueryError::InsertValue"
    /\ get_schema_and_indexes_by_name(env, <<97>>, "none").out = "ok"
    /\ DbGet(env.schema_db, get_schema_reverse_key(<<98>>)) = None

\* The places where the catalog transaction of insert_schema can fail.
CatalogFailPoints == {"put", "rput", "commit"}

\* insert_schema of g failing at `fail` in state (e, reg) leaves the catalog
\* as it was and the registry holding a handle for every index definition of
\* g, and the same call made again succeeds with the outcome the call would
\* have had, had it succeeded at once.
RetryAfterFailure(e, reg, g, failed) ==
    /\ failed.out \notin {"ok", "panic"}
    /\ failed.env.schema_db = e.schema_db
    /\ \A idx \in 0..(Len(g.shape.indexes) - 1) :
          get_db(failed.reg, MkSchema(g.ident, g.shape), idx) # None
    /\ insert_schema(failed.env, failed.reg, g.name, MkSchema(g.ident, g.shape),
                     g.shape.indexes, "none")
         = insert_schema(e, reg, g.name, MkSchema(g.ident, g.shape),
                         g.shape.indexes, "none")
    /\ insert_schema(e, reg, g.name, MkSchema(g.ident, g.shape),
                     g.shape.indexes, "none").out = "ok"

\* C18: in every reachable state, an insert_schema whose catalog
\* transaction fails at a put or at the commit leaves the schema catalog
\* unchanged and the handles of the call's index sub-stores in the registry,
\* and an identical call after it succeeds and yields the registry and
\* catalog of a single successful call.
C18_FailedRegistrationRetry ==
    \A name \in Names, i \in SchemaIdentifiers, shape \in SchemaShapes,
       fail \in CatalogFailPoints :
        RetryAfterFailure(env, indexes,
            [name |-> name, ident |-> Some(i), shape |-> shape],
            insert_schema(env, indexes, name, MkSchema(Some(i), shape),
                          shape.indexes, fail))

\* C18 witness: the first registration failed at the put of the
\* SchemaNameEntry: the registry holds the handles of its two index
\* definitions and the catalog is empty.
C18_Witness ==
    /\ last.op = "insert_schema" /\ last.out = "QueryError::InsertValue"
    /\ DOMAIN indexes = {100000, 100001}
    /\ DOMAIN env.schema_db = {}

\* The call that has just committed is an insert of a record with lookup key
\* k, delete(k), or update(k, R) with R keeping the lookup key k.
MutationOf(l, k) ==
    /\ l.out = "ok"
    /\ \/ l.op = "insert" /\ LookupKeyOf(l.rec) = k
       \/ l.op = "delete" /\ l.key = k
       \/ l.op = "update" /\ l.key = k /\ LookupKeyOf(l.rec) = k

\* C19: for distinct lookup keys k1 and k2 with k1 live, a successful
\* insert of a record with lookup key k2, delete(k2) or update(k2, R) with R
\* keeping lookup key k2 leaves what get(k1) returns unchanged.
C19_PerKeyFrame ==
    [][ \A k1, k2 \in LookupKeys :
          ( /\ k1 # k2
            /\ get(env, k1, "none").out = "ok"
            /\ MutationOf(last', k2) )
          => SameAnswer(get(env', k1, "none"), get(env, k1, "none")) ]_vars

\* C20: in every committed state, every primary-key index entry points to
\* an InternalRecordID present in the records store, no two lookup keys
\* point to the same InternalRecordID, and every entry of every secondary
\* index points to an InternalRecordID present in the records store whose
\* stored record's field values encode to the entry's key.
C20_NoDanglingEntries ==
    /\ \A k \in DOMAIN env.primary_index : env.primary_index[k] \in DOMAIN env.db
    /\ \A k1, k2 \in DOMAIN env.primary_index :
          env.primary_index[k1] = env.primary_index[k2] => k1 = k2
    /\ \A d \in SchemaRecords(env) :
          \A idx \in 0..(Len(d.indexes) - 1) :
             get_db(indexes, d.schema, idx) # None =>
                \A entry \in IndexStore(d.schema, idx) :
                   /\ entry[2] \in DOMAIN env.db
                   /\ build_index_sorted_inverted(
                          d.indexes[idx + 1].fields,
                          DeserializeRecord(env.db[entry[2]]).values) = entry[1]

====
